---- MODULE Spec2Model ----
(***************************************************************************)
(* Model of Scripts/migrate-appcolors-to-semantic.py: the line rewriter    *)
(* (should_skip_line, apply_direct_mappings, apply_opacity_mapping,        *)
(* migrate_line), the file migrator (migrate_file) and the run over the    *)
(* files (main); of Scripts/update_claude_config.py; and of migrate_file   *)
(* of Scripts/migrate_all_prints.py.                                       *)
(*                                                                         *)
(* Text is a sequence of tokens.  A token is a maximal chunk of characters *)
(* that no regular expression of the script can split: every literal of a  *)
(* pattern ("AppColors", ".", "primary", "opacity", "(", ...) is a token   *)
(* or a sequence of tokens, identifiers that extend a legacy symbol are    *)
(* written as two tokens (errorLight = "error" "Light", primaryAction =    *)
(* "primary" "Action"), and the characters of a numeric literal are one    *)
(* token each, so that the unescaped "." of a regular expression can be    *)
(* matched against exactly one character.  Under this tokenisation a       *)
(* substring test or a regex match on the characters is the same test on   *)
(* the tokens.                                                             *)
(***************************************************************************)
EXTENDS Integers, Sequences, FiniteSets, TLC

VARIABLES
    \* ---- migrate_file ------------------------------------------------
    disk,        \* the file on disk: a sequence of lines, terminator included
    disk0,       \* the file on disk when migrate_file was called
    readable,    \* whether open(file_path, 'r') succeeds
    dry_run,     \* the dry_run argument
    pc,          \* position of migrate_file
    lines,       \* f.readlines()
    i,           \* loop index of enumerate(lines, 1): the next line to do
    new_lines,   \* new_lines
    result,      \* the MigrationResult
    calls,       \* the returns of migrate_line in this run, in call order
    write_outcome, \* "none": open(file_path, 'w') was not executed in this run;
                 \* else how the write ended: "ok", "open_failed", "write_failed"
    \* ---- migrate_line on its own -------------------------------------
    l_pc,        \* "call", "ret", "ret2"
    l_in,        \* the line passed to migrate_line
    l_num,       \* the line number passed to migrate_line (any positive number)
    l_ret,       \* what migrate_line(l_in, l_num) returned
    l_ret2,      \* what migrate_line(l_ret.line, l_num) returned
    \* ---- main ---------------------------------------------------------
    tree,        \* the Swift files the run is about: content and access
    mode,        \* "file": --file was given; "all": it was not
    m_pc,        \* position of main
    files,       \* files, as indices of tree
    file_no,     \* loop index of: for file_path in files
    total_replacements,
    total_skipped,
    files_modified,
    printed,     \* the "Error:" lines printed, each with the file it is about
    results,     \* the MigrationResults migrate_file returned, in call order
    report,      \* the four numbers of the summary
    \* ---- a second run of migrate_file ---------------------------------
    prev,        \* the MigrationResult of the run before this one, if any
    \* ---- update_claude_config.py --------------------------------------
    config_exists, \* config_path.exists()
    config_file, \* what ~/.claude.json holds
    config,      \* config
    changes_made, \* changes_made
    c_pc,        \* position of update_claude_config
    \* ---- migrate_all_prints.py: migrate_file --------------------------
    pr_pc,       \* position of migrate_file
    pr_path,     \* filepath
    pr_file,     \* what the file holds
    pr_readable, \* whether open(filepath, 'r') succeeds
    pr_content,  \* content
    pr_changed,  \* changes_made
    pr_ret,      \* what each call has returned, in call order
    pr_first     \* what the file held when the first call returned

fvars == <<disk, disk0, readable, dry_run, pc, lines, i, new_lines, result,
           calls, write_outcome>>
lvars == <<l_pc, l_in, l_num, l_ret, l_ret2>>
mvars == <<tree, mode, m_pc, files, file_no, total_replacements, total_skipped,
           files_modified, printed, results, report>>
rvars == <<prev>>
cvars == <<config_exists, config_file, config, changes_made, c_pc>>
pvars == <<pr_pc, pr_path, pr_file, pr_readable, pr_content, pr_changed, pr_ret, pr_first>>
vars == <<fvars, lvars, mvars, rvars, cvars, pvars>>

----------------------------------------------------------------------------
(* Characters and character classes of the regular expressions.            *)

Digits == {"0", "1", "2", "3", "4", "5", "6", "7", "8", "9"}

\* One-character tokens that are not a line terminator.
Punct == {".", "(", ")", " ", ","}

\* Line terminators.
Terminators == {"\n", "\r\n", "\r"}

\* Tokens of exactly one character other than a newline: what an unescaped
\* "." of a regular expression matches.
AnyChar(t) == t \in Digits \cup Punct \cup {"x", "_"}

\* \w : every token that is neither punctuation nor a terminator is made of
\* letters, digits and underscores only.
IsWord(t) == t \notin Punct \cup Terminators

\* [\d.]
IsDigitOrDot(t) == t \in Digits \cup {"."}

\* Whitespace, as str.strip() sees it.
IsSpace(t) == t \in {" "} \cup Terminators

----------------------------------------------------------------------------
(* Regular expressions without repetition: a sequence of elements, each a  *)
(* literal token (an escaped "\." is the token ".") or the wildcard (an    *)
(* unescaped ".").                                                         *)

Wildcard == "<.>"

RECURSIVE Raw(_)
\* Text interpolated into a pattern as it is: its "." is the wildcard.
Raw(s) ==
    IF s = <<>> THEN <<>>
    ELSE <<IF Head(s) = "." THEN Wildcard ELSE Head(s)>> \o Raw(Tail(s))

ElemMatches(e, t) == IF e = Wildcard THEN AnyChar(t) ELSE t = e

\* The pattern matches the text at position p; nodot is the negative
\* lookahead (?!\.) after it.
MatchAt(re, nodot, s, p) ==
    /\ ElemMatches(re[1], s[p])
    /\ p + Len(re) - 1 <= Len(s)
    /\ \A n \in 2..Len(re) : ElemMatches(re[n], s[p + n - 1])
    /\ nodot => ~(p + Len(re) <= Len(s) /\ s[p + Len(re)] = ".")

RECURSIVE FindallFrom(_, _, _, _)
\* len(re.findall(pattern, s)) from position p on: leftmost, non-overlapping.
FindallFrom(re, nodot, s, p) ==
    IF p > Len(s) THEN 0
    ELSE IF MatchAt(re, nodot, s, p)
         THEN 1 + FindallFrom(re, nodot, s, p + Len(re))
         ELSE FindallFrom(re, nodot, s, p + 1)

ReFindallLen(re, nodot, s) == FindallFrom(re, nodot, s, 1)

\* re.search(pattern, s) is not None
ReSearch(re, nodot, s) == \E p \in 1..Len(s) : MatchAt(re, nodot, s, p)

RECURSIVE SubFrom(_, _, _, _, _)
\* re.sub(pattern, repl, s) from position p on, with the number of
\* occurrences it replaced (what re.subn returns).
SubFrom(re, nodot, repl, s, p) ==
    IF p > Len(s) THEN [s |-> <<>>, n |-> 0]
    ELSE IF MatchAt(re, nodot, s, p)
         THEN LET r == SubFrom(re, nodot, repl, s, p + Len(re))
              IN  [s |-> repl \o r.s, n |-> r.n + 1]
         ELSE LET r == SubFrom(re, nodot, repl, s, p + 1)
              IN  [s |-> <<s[p]>> \o r.s, n |-> r.n]

RECURSIVE SubFirstFrom(_, _, _, _, _)
\* re.sub(pattern, repl, s, count=1): only the first occurrence is replaced.
SubFirstFrom(re, nodot, repl, s, p) ==
    IF p > Len(s) THEN [s |-> <<>>, n |-> 0]
    ELSE IF MatchAt(re, nodot, s, p)
         THEN [s |-> repl \o SubSeq(s, p + Len(re), Len(s)), n |-> 1]
         ELSE LET r == SubFirstFrom(re, nodot, repl, s, p + 1)
              IN  [s |-> <<s[p]>> \o r.s, n |-> r.n]

\* ReSubn with count=1.
ReSubn_first(re, nodot, repl, s) == SubFirstFrom(re, nodot, repl, s, 1)

ReSubn(re, nodot, repl, s) == SubFrom(re, nodot, repl, s, 1)

\* sub in s (a substring test on str)
Contains(s, sub) ==
    \E p \in 1..(Len(s) - Len(sub) + 1) :
        \A n \in 1..Len(sub) : s[p + n - 1] = sub[n]

\* tok in s for a one-token text
HasToken(s, tok) == \E p \in 1..Len(s) : s[p] = tok

----------------------------------------------------------------------------
(* The rule tables.                                                        *)

AppColors == "AppColors"
SemanticColors == "SemanticColors"

\* ReplacementRule: pattern r"AppColors\.<sym>(?!\.)", replacement
\* "SemanticColors.<new>".
Rule(name, sym, new) ==
    [name |-> name,
     pattern |-> <<AppColors, ".">> \o sym,
     replacement |-> <<SemanticColors, ".">> \o new]

DIRECT_MAPPINGS == <<
    Rule("textPrimary", <<"textPrimary">>, <<"textPrimary">>),
    Rule("textSecondary", <<"textSecondary">>, <<"textSecondary">>),
    Rule("textTertiary", <<"textTertiary">>, <<"textTertiary">>),
    Rule("primary_action", <<"primary">>, <<"primary", "Action">>),
    Rule("secondary_action", <<"secondary">>, <<"secondary", "Action">>),
    Rule("accent", <<"accent">>, <<"accent">>),
    Rule("success", <<"success">>, <<"success">>),
    Rule("warning", <<"warning">>, <<"warning">>),
    Rule("error", <<"error">>, <<"error">>),
    Rule("info", <<"info">>, <<"info">>),
    Rule("errorLight", <<"error", "Light">>, <<"error", "Light">>),
    Rule("successLight", <<"success", "Light">>, <<"success", "Light">>),
    Rule("warningLight", <<"warning", "Light">>, <<"warning", "Light">>),
    Rule("infoLight", <<"info", "Light">>, <<"info", "Light">>),
    Rule("background", <<"background">>, <<"background">>),
    Rule("backgroundSecondary", <<"background", "Secondary">>, <<"background", "Secondary">>),
    Rule("cardBackground", <<"cardBackground">>, <<"cardBackground">>),
    Rule("border", <<"border">>, <<"border">>),
    Rule("divider", <<"divider">>, <<"divider">>),
    Rule("shadowLight", <<"shadow", "Light">>, <<"shadow", "Light">>),
    Rule("shadow", <<"shadow">>, <<"shadow">>),
    Rule("hover", <<"hover">>, <<"hover">>),
    Rule("pressed", <<"pressed">>, <<"pressed">>),
    Rule("disabled", <<"disabled">>, <<"disabled">>),
    Rule("selected", <<"selected">>, <<"selected">>)
>>

\* OPACITY_MAPPINGS, in the dict's insertion order: literal -> constant.
Opac(val, level) == [val |-> val, const |-> <<"Opacity", ".", level>>]

OPACITY_MAPPINGS == <<
    Opac(<<"0", ".", "0", "5">>, "verySubtle"),
    Opac(<<"0", ".", "0", "8">>, "verySubtle"),
    Opac(<<"0", ".", "1">>, "subtle"),
    Opac(<<"0", ".", "1", "5">>, "subtle"),
    Opac(<<"0", ".", "2">>, "subtle"),
    Opac(<<"0", ".", "2", "5">>, "light"),
    Opac(<<"0", ".", "3">>, "light"),
    Opac(<<"0", ".", "4">>, "light"),
    Opac(<<"0", ".", "5">>, "medium"),
    Opac(<<"0", ".", "6">>, "medium"),
    Opac(<<"0", ".", "7">>, "medium"),
    Opac(<<"0", ".", "8">>, "strong"),
    Opac(<<"0", ".", "9">>, "strong")
>>

\* COLORS_WITH_OPACITY: (legacy symbol, new qualified name).
Color(sym, new) == [sym |-> sym, new |-> <<SemanticColors, ".">> \o new]

COLORS_WITH_OPACITY == <<
    Color("textPrimary", <<"textPrimary">>),
    Color("textSecondary", <<"textSecondary">>),
    Color("textTertiary", <<"textTertiary">>),
    Color("primary", <<"primary", "Action">>),
    Color("secondary", <<"secondary", "Action">>),
    Color("accent", <<"accent">>),
    Color("success", <<"success">>),
    Color("warning", <<"warning">>),
    Color("error", <<"error">>),
    Color("info", <<"info">>),
    Color("background", <<"background">>),
    Color("border", <<"border">>),
    Color("divider", <<"divider">>)
>>

\* The symbols apply_opacity_mapping has a loop for, in the order of its
\* loops.
OPACITY_LOOPS == <<
    Color("textPrimary", <<"textPrimary">>),
    Color("textSecondary", <<"textSecondary">>),
    Color("primary", <<"primary", "Action">>)
>>

SKIP_PATTERNS == <<
    <<AppColors, ".", "Budget", ".">>,
    <<AppColors, ".", "Vendor", ".">>,
    <<AppColors, ".", "Guest", ".">>,
    <<AppColors, ".", "Avatar", ".">>,
    <<AppColors, ".", "Task", ".">>
>>

----------------------------------------------------------------------------
(* The line rewriter.                                                      *)

None == <<>>

\* The least element of a non-empty set of numbers.
SetMin(S) == CHOOSE n \in S : \A k \in S : n <= k
SetMax(S) == CHOOSE n \in S : \A k \in S : n >= k

At(s, p) == IF p >= 1 /\ p <= Len(s) THEN s[p] ELSE ""

\* f"Contains {pattern} (domain-specific color)"
ContainsReason(pattern) == <<"Contains", pattern>>

\* f"Unhandled pattern: {pattern}"
UnhandledReason(pattern) == <<"Unhandled pattern", pattern>>

\* SkipReasonOf for a loop without the return: the last hit wins.
SkipReasonOf_last(hits) ==
    IF hits = {} THEN None ELSE ContainsReason(SKIP_PATTERNS[SetMax(hits)])

\* The return of should_skip_line when hits are the indices of the skip
\* patterns the line contains: the loop returns at the first of them.
SkipReasonOf(hits) ==
    IF hits = {} THEN None ELSE ContainsReason(SKIP_PATTERNS[SetMin(hits)])

\* should_skip_line with line.startswith(pattern) for pattern in line.
should_skip_line_startswith(line) ==
    SkipReasonOf({n \in 1..Len(SKIP_PATTERNS) :
                     /\ Len(line) >= Len(SKIP_PATTERNS[n])
                     /\ SubSeq(line, 1, Len(SKIP_PATTERNS[n])) = SKIP_PATTERNS[n]})

\* should_skip_line: the reason of the first skip pattern the line
\* contains, None if it contains none.
should_skip_line(line) ==
    SkipReasonOf({n \in 1..Len(SKIP_PATTERNS) : Contains(line, SKIP_PATTERNS[n])})

RECURSIVE DirectFrom(_, _, _, _)

\* DirectSub without count += matches.
DirectSub_uncounted(done, count, matches, subs, r) ==
    DirectFrom(done.s, count, subs + done.n, r + 1)

\* line = re.sub(rule.pattern, rule.replacement, line); count += matches
DirectSub(done, count, matches, subs, r) ==
    DirectFrom(done.s, count + matches, subs + done.n, r + 1)

\* if matches > 0: ...
DirectRule(line, count, subs, r, matches) ==
    IF matches > 0
    THEN DirectSub(ReSubn(DIRECT_MAPPINGS[r].pattern, TRUE,
                          DIRECT_MAPPINGS[r].replacement, line),
                   count, matches, subs, r)
    ELSE DirectFrom(line, count, subs, r + 1)

\* The loop of apply_direct_mappings from rule r on.  subs is the number
\* of occurrences re.sub replaced so far.
DirectFrom(line, count, subs, r) ==
    IF r > Len(DIRECT_MAPPINGS) THEN [line |-> line, count |-> count, subs |-> subs]
    ELSE DirectRule(line, count, subs, r,
                    ReFindallLen(DIRECT_MAPPINGS[r].pattern, TRUE, line))

\* apply_direct_mappings: (new_line, count)
apply_direct_mappings(line) == DirectFrom(line, 0, 0, 1)

\* rf"AppColors\.<sym>\.opacity\({opacity_val}\)": the literal is
\* interpolated as it is.
OpacityPattern(sym, val) ==
    <<AppColors, ".", sym, ".", "opacity", "(">> \o Raw(val) \o <<")">>

\* f"<new>.opacity({opacity_const})"
OpacityReplacement(new, const) == new \o <<".", "opacity", "(">> \o const \o <<")">>

RECURSIVE OpacityRow(_, _)
\* The patterns and replacements of loop c (a symbol) from entry m (a
\* literal) on.
OpacityRow(c, m) ==
    IF m > Len(OPACITY_MAPPINGS) THEN <<>>
    ELSE <<[pattern |-> OpacityPattern(OPACITY_LOOPS[c].sym, OPACITY_MAPPINGS[m].val),
            replacement |-> OpacityReplacement(OPACITY_LOOPS[c].new,
                                               OPACITY_MAPPINGS[m].const)]>>
         \o OpacityRow(c, m + 1)

OpacityRules == <<OpacityRow(1, 1), OpacityRow(2, 1), OpacityRow(3, 1)>>

RECURSIVE OpacityFrom(_, _, _, _, _)

\* line = re.sub(pattern, ..., line); count += 1
OpacitySub(done, count, subs, c, m) ==
    OpacityFrom(done.s, count + 1, subs + done.n, c, m + 1)

\* The three loops of apply_opacity_mapping from loop c, entry m on.  subs
\* is the number of occurrences re.sub replaced so far.
OpacityFrom(line, count, subs, c, m) ==
    IF c > Len(OPACITY_LOOPS) THEN [line |-> line, count |-> count, subs |-> subs]
    ELSE IF m > Len(OPACITY_MAPPINGS) THEN OpacityFrom(line, count, subs, c + 1, 1)
    ELSE IF ReSearch(OpacityRules[c][m].pattern, FALSE, line)
         THEN OpacitySub(ReSubn(OpacityRules[c][m].pattern, FALSE,
                                OpacityRules[c][m].replacement, line),
                         count, subs, c, m)
         ELSE OpacityFrom(line, count, subs, c, m + 1)

\* \w+ at p, greedy: the position after the longest run of word tokens.
WordRunEnd(s, p) ==
    CHOOSE q \in p..(Len(s) + 1) :
        /\ \A n \in p..(q - 1) : IsWord(s[n])
        /\ q = Len(s) + 1 \/ ~IsWord(s[q])

\* [\d.]+ at p, greedy: the position after the longest run of digits and
\* dots.
DigitRunEnd(s, p) ==
    CHOOSE q \in p..(Len(s) + 1) :
        /\ \A n \in p..(q - 1) : IsDigitOrDot(s[n])
        /\ q = Len(s) + 1 \/ ~IsDigitOrDot(s[q])

\* "AppColors\.\w" at p
MemberAt(s, p) ==
    At(s, p) = AppColors /\ At(s, p + 1) = "." /\ p + 2 <= Len(s) /\ IsWord(s[p + 2])

\* "[\d.]+\)" with the digits ending before t
OpacityArgEnd(s, t) == IF At(s, t) = ")" THEN t + 1 ELSE 0

\* "\.opacity\([\d.]+\)" at q
OpacityTailEnd(s, q) ==
    IF At(s, q) = "." /\ At(s, q + 1) = "opacity" /\ At(s, q + 2) = "("
       /\ q + 3 <= Len(s) /\ IsDigitOrDot(s[q + 3])
    THEN OpacityArgEnd(s, DigitRunEnd(s, q + 3))
    ELSE 0

\* r"AppColors\.\w+\.opacity\([\d.]+\)" at p: the position after the
\* match, 0 if there is none.
OpacityCallEnd(s, p) ==
    IF MemberAt(s, p) THEN OpacityTailEnd(s, WordRunEnd(s, p + 2)) ELSE 0

RECURSIVE RemainingOpacityFrom(_, _)

RemainingOpacityAt(s, p, e) ==
    IF e > 0 THEN <<SubSeq(s, p, e - 1)>> \o RemainingOpacityFrom(s, e)
    ELSE RemainingOpacityFrom(s, p + 1)

\* re.findall(r"AppColors\.\w+\.opacity\([\d.]+\)", s) from p on
RemainingOpacityFrom(s, p) ==
    IF p > Len(s) THEN <<>> ELSE RemainingOpacityAt(s, p, OpacityCallEnd(s, p))

\* The loop over remaining_opacity that fills unhandled.
Unhandled(line, remaining_opacity) ==
    SelectSeq(remaining_opacity,
              LAMBDA pattern : ~HasToken(line, SemanticColors) \/ Contains(line, pattern))

OpacityReturn(done) ==
    [line |-> done.line, count |-> done.count, subs |-> done.subs,
     unhandled |-> Unhandled(done.line, RemainingOpacityFrom(done.line, 1))]

\* apply_opacity_mapping: (new_line, count, unhandled_patterns)
apply_opacity_mapping(line) == OpacityReturn(OpacityFrom(line, 0, 0, 1, 1))

RECURSIVE MemberChainEnd(_, _)
\* (?:\.\w+)* from q on, greedy: the position after the last member.
MemberChainEnd(s, q) ==
    IF At(s, q) = "." /\ q + 1 <= Len(s) /\ IsWord(s[q + 1])
    THEN MemberChainEnd(s, WordRunEnd(s, q + 1))
    ELSE q

\* (?:\([^)]*\))? at q, closing being the positions of the ")" after q
ArgumentsEnd(s, q, closing) ==
    IF At(s, q) = "(" /\ closing # {} THEN SetMin(closing) + 1 ELSE q

ResidualTailEnd(s, q) == ArgumentsEnd(s, q, {n \in (q + 1)..Len(s) : s[n] = ")"})

\* r"AppColors\.\w+(?:\.\w+)*(?:\([^)]*\))?" at p: the position after
\* the match, 0 if there is none.
ResidualEnd(s, p) ==
    IF MemberAt(s, p)
    THEN ResidualTailEnd(s, MemberChainEnd(s, WordRunEnd(s, p + 2)))
    ELSE 0

RECURSIVE ResidualFrom(_, _)

ResidualAt(s, p, e) ==
    IF e > 0 THEN <<SubSeq(s, p, e - 1)>> \o ResidualFrom(s, e)
    ELSE ResidualFrom(s, p + 1)

\* re.findall(r"AppColors\.\w+(?:\.\w+)*(?:\([^)]*\))?", s) from p on
ResidualFrom(s, p) ==
    IF p > Len(s) THEN <<>> ELSE ResidualAt(s, p, ResidualEnd(s, p))

StripTo(s, inner) ==
    IF inner = {} THEN <<>> ELSE SubSeq(s, SetMin(inner), SetMax(inner))

\* line.strip()
Strip(s) == StripTo(s, {n \in 1..Len(s) : ~IsSpace(s[n])})

\* The loop over remaining: the skip info of the first pattern without
\* "SemanticColors" in it, None if there is none.
FirstWithout(line, line_num, bad) ==
    IF bad = <<>> THEN None
    ELSE <<line_num, Strip(line), UnhandledReason(Head(bad))>>

\* if "AppColors" in line: ... (the check for remaining AppColors)
FirstUnhandled(line, line_num) ==
    IF HasToken(line, AppColors)
    THEN FirstWithout(line, line_num,
                      SelectSeq(ResidualFrom(line, 1),
                                LAMBDA pattern : ~HasToken(pattern, SemanticColors)))
    ELSE None

\* The return of migrate_line after the two passes.
Rewritten(direct, opacity, line_num) ==
    [line |-> opacity.line,
     count |-> direct.count + opacity.count,
     subs |-> direct.subs + opacity.subs,
     skipped |-> FirstUnhandled(opacity.line, line_num)]

AfterDirect(direct, line_num) ==
    Rewritten(direct, apply_opacity_mapping(direct.line), line_num)

\* AfterSkipCheck with original_line.strip() as the text of the skip
\* info of a rewritten line.
AfterSkipCheck_originalText(line, line_num, skip_reason) ==
    IF skip_reason # None /\ HasToken(line, AppColors)
    THEN [line |-> line, count |-> 0, subs |-> 0,
          skipped |-> <<line_num, Strip(line), skip_reason>>]
    ELSE IF ~HasToken(line, AppColors)
    THEN [line |-> line, count |-> 0, subs |-> 0, skipped |-> None]
    ELSE [AfterDirect(apply_direct_mappings(line), line_num) EXCEPT
             !.skipped = IF @ = None THEN None ELSE <<@[1], Strip(line), @[3]>>]

\* The return of migrate_line for a line should_skip_line gives
\* skip_reason for.
AfterSkipCheck(line, line_num, skip_reason) ==
    IF skip_reason # None /\ HasToken(line, AppColors)
    THEN [line |-> line, count |-> 0, subs |-> 0,
          skipped |-> <<line_num, Strip(line), skip_reason>>]
    ELSE IF ~HasToken(line, AppColors)
    THEN [line |-> line, count |-> 0, subs |-> 0, skipped |-> None]
    ELSE AfterDirect(apply_direct_mappings(line), line_num)

\* migrate_line: (new_line, replacement_count, skipped_info or None).
\* subs is the number of occurrences the two passes replaced.
migrate_line(line, line_num) == AfterSkipCheck(line, line_num, should_skip_line(line))

----------------------------------------------------------------------------
(* Inputs.                                                                 *)

\* The longest line, in fragments.
MaxFrags == 3
\* The longest file, in lines.
MaxLines == 2

Call(sym, val) == <<AppColors, ".", sym, ".", "opacity", "(">> \o val \o <<")">>

\* Pieces of Swift source a line is made of.
Fragments == {
    <<AppColors, ".", "primary">>,
    Call("primary", <<"0", ".", "3">>),
    Call("primary", <<"0", "x", "3">>),
    Call("textTertiary", <<"0", ".", "3">>),
    Call("textPrimary", <<"0", ".", "3", "3">>),
    <<AppColors, ".", "Budget", ".", "warning">>,
    <<AppColors>>,
    <<AppColors, ".", "custom", "(", SemanticColors, ".", "accent", ")">>,
    <<"Light">>,
    <<".">>,
    <<" ">>
}

RECURSIVE LinesOf(_)
\* The lines of exactly n fragments.
LinesOf(n) ==
    IF n = 0 THEN {<<>>}
    ELSE {f \o l : f \in Fragments, l \in LinesOf(n - 1)}

Lines == UNION {LinesOf(n) : n \in 1..MaxFrags}

----------------------------------------------------------------------------
(* migrate_line on its own: one call, then a second call on the line the   *)
(* first one returned.                                                     *)

NoRet == [line |-> <<>>, count |-> 0, subs |-> 0, skipped |-> None]

NoReport ==
    [files_processed |-> 0, files_modified |-> 0, total_replacements |-> 0,
     skipped_instances |-> 0]

\* A field of the configuration: whether it is there and the string it
\* holds, in tokens.
Field(present, value) == [present |-> present, value |-> value]

\* A configuration without any of the fields.
NoConfig ==
    [adr |-> Field(FALSE, <<>>), greb |-> Field(FALSE, <<>>), args |-> Field(FALSE, <<>>),
     auth |-> Field(FALSE, <<>>), projects |-> <<>>]

\* migrate_file of migrate_all_prints.py is not running.
PrintsIdle ==
    /\ pr_pc = "idle"
    /\ pr_path = <<>>
    /\ pr_file = <<>>
    /\ pr_readable = TRUE
    /\ pr_content = <<>>
    /\ pr_changed = FALSE
    /\ pr_ret = <<>>
    /\ pr_first = <<>>

\* update_claude_config is not running.
ConfigIdle ==
    /\ config_exists = FALSE
    /\ config_file = NoConfig
    /\ config = NoConfig
    /\ changes_made = <<>>
    /\ c_pc = "idle"

\* main is not running.
MainIdle ==
    /\ tree = <<>>
    /\ mode = "none"
    /\ m_pc = "idle"
    /\ files = <<>>
    /\ file_no = 0
    /\ total_replacements = 0
    /\ total_skipped = <<>>
    /\ files_modified = 0
    /\ printed = <<>>
    /\ results = <<>>
    /\ report = NoReport

FileIdle ==
    /\ disk = <<>>
    /\ disk0 = <<>>
    /\ readable = TRUE
    /\ dry_run = TRUE
    /\ pc = "idle"
    /\ lines = <<>>
    /\ i = 0
    /\ new_lines = <<>>
    /\ result = [replacements_made |-> 0, skipped_instances |-> <<>>, errors |-> <<>>]
    /\ calls = <<>>
    /\ write_outcome = "none"

LineInit ==
    /\ l_pc = "call"
    /\ l_in \in Lines
    /\ l_num = Len(l_in)
    /\ l_ret = NoRet
    /\ l_ret2 = NoRet
    /\ FileIdle
    /\ MainIdle
    /\ prev = <<>>
    /\ ConfigIdle
    /\ PrintsIdle

MigrateLine ==
    /\ l_pc = "call"
    /\ l_ret' = migrate_line(l_in, l_num)
    /\ l_pc' = "ret"
    /\ UNCHANGED <<l_in, l_num, l_ret2, fvars, mvars, rvars, cvars, pvars>>

MigrateLineAgain ==
    /\ l_pc = "ret"
    /\ l_ret2' = migrate_line(l_ret.line, l_num)
    /\ l_pc' = "ret2"
    /\ UNCHANGED <<l_in, l_num, l_ret, fvars, mvars, rvars, cvars, pvars>>

LineNext == MigrateLine \/ MigrateLineAgain

SpecLine == LineInit /\ [][LineNext]_vars

----------------------------------------------------------------------------
(* migrate_line on the lines the tables are about: a reference to each     *)
(* symbol of DIRECT_MAPPINGS, alone and continued, and the protected       *)
(* substrings of SKIP_PATTERNS two by two.                                 *)

\* What follows a reference: nothing, the rest of a longer identifier, a
\* member access, the end of the line.
RuleSuffixes == {<<>>, <<"Foo">>, <<".", "opacity">>, <<" ", "\n">>}

RuleLines ==
    {pre \o DIRECT_MAPPINGS[r].pattern \o suf :
        r \in 1..Len(DIRECT_MAPPINGS), pre \in {<<>>, <<" ">>}, suf \in RuleSuffixes}

SkipLines ==
    {<<" ">> \o SKIP_PATTERNS[a] \o <<"x", " ">> \o SKIP_PATTERNS[b] \o <<"y", " ">> \o end :
        a \in 1..Len(SKIP_PATTERNS), b \in 1..Len(SKIP_PATTERNS),
        end \in {<<"\n">>, <<AppColors, ".", "primary", "\n">>}}

TableInit ==
    /\ l_pc = "call"
    /\ l_in \in RuleLines \cup SkipLines
    /\ l_num = Len(l_in)
    /\ l_ret = NoRet
    /\ l_ret2 = NoRet
    /\ FileIdle
    /\ MainIdle
    /\ prev = <<>>
    /\ ConfigIdle
    /\ PrintsIdle

SpecTables == TableInit /\ [][LineNext]_vars

----------------------------------------------------------------------------
(* migrate_file.                                                           *)

\* The bodies of the lines of a file.
FileBodies == {
    <<" ", AppColors, ".", "primary">>,
    Call("primary", <<"0", ".", "3">>) \o <<" ">> \o Call("primary", <<"0", ".", "3">>),
    <<AppColors, ".", "Budget", ".", "warning">>,
    Call("textPrimary", <<"0", ".", "3", "3">>),
    <<"Light">>,
    <<AppColors, ".", "primary", " ">> \o Call("textTertiary", <<"0", ".", "3">>)
}

\* The terminator a file uses for its lines.
FileTerminators == {"\n", "\r\n"}

RECURSIVE BodiesOf(_)
\* The sequences of exactly n bodies.
BodiesOf(n) ==
    IF n = 0 THEN {<<>>}
    ELSE {<<b>> \o f : b \in FileBodies, f \in BodiesOf(n - 1)}

\* The file of these bodies, each line ended by term; the last line is
\* ended only if final.
FileOf(bodies, term, final) ==
    [n \in 1..Len(bodies) |->
        IF n < Len(bodies) \/ final THEN bodies[n] \o <<term>> ELSE bodies[n]]

Files ==
    {FileOf(b, t, f) : b \in UNION {BodiesOf(n) : n \in 0..MaxLines},
                       t \in FileTerminators, f \in BOOLEAN}

\* os.linesep: the script migrates the sources of an Xcode project.
os_linesep == "\n"

\* A line as open(file_path, 'r') hands it out: universal newlines turn
\* every terminator into "\n".
Decoded(line) ==
    [n \in 1..Len(line) |-> IF line[n] \in Terminators THEN "\n" ELSE line[n]]

\* A line as open(file_path, 'w') stores it: "\n" becomes os.linesep.
Encoded(line) ==
    [n \in 1..Len(line) |-> IF line[n] = "\n" THEN os_linesep ELSE line[n]]

\* f.readlines()
Readlines(file) == [n \in 1..Len(file) |-> Decoded(file[n])]

\* What f.writelines(lns) leaves in the file.
Written(lns) == [n \in 1..Len(lns) |-> Encoded(lns[n])]

\* f"Failed to read file: {e}", f"Failed to write file: {e}"
ReadError == "Failed to read file"
WriteError == "Failed to write file"

\* ShouldWrite without the test of dry_run.
ShouldWrite_anyRun(dry, made) == made > 0

\* ShouldWrite without the test of replacements_made.
ShouldWrite_anyCount(dry, made) == ~dry

\* The condition of the write: not dry_run and result.replacements_made > 0
ShouldWrite(dry, made) == ~dry /\ made > 0

LineIdle ==
    /\ l_pc = "idle"
    /\ l_in = <<>>
    /\ l_num = 0
    /\ l_ret = NoRet
    /\ l_ret2 = NoRet

\* The call migrate_file(file_path, dry_run), result constructed.
Init ==
    /\ disk \in Files
    /\ disk0 = disk
    /\ readable \in BOOLEAN
    /\ dry_run \in BOOLEAN
    /\ pc = "read"
    /\ lines = <<>>
    /\ i = 0
    /\ new_lines = <<>>
    /\ result = [replacements_made |-> 0, skipped_instances |-> <<>>, errors |-> <<>>]
    /\ calls = <<>>
    /\ write_outcome = "none"
    /\ LineIdle
    /\ MainIdle
    /\ prev = <<>>
    /\ ConfigIdle
    /\ PrintsIdle

\* with open(file_path, 'r') as f: lines = f.readlines()
ReadOk ==
    /\ pc = "read"
    /\ readable
    /\ lines' = Readlines(disk)
    /\ new_lines' = <<>>
    /\ i' = 1
    /\ pc' = "loop"
    /\ UNCHANGED <<disk, disk0, readable, dry_run, result, calls, write_outcome,
                   lvars, mvars, rvars, cvars,
                   pvars>>

\* ReadFail with the exception swallowed: nothing is appended to errors.
ReadFail_pass ==
    /\ pc = "read"
    /\ ~readable
    /\ pc' = "done"
    /\ UNCHANGED <<disk, disk0, readable, dry_run, lines, i, new_lines, result, calls,
                   write_outcome, lvars, mvars, rvars, cvars,
                   pvars>>

\* except Exception: result.errors.append(...); return result
ReadFail ==
    /\ pc = "read"
    /\ ~readable
    /\ result' = [result EXCEPT !.errors = Append(@, ReadError)]
    /\ pc' = "done"
    /\ UNCHANGED <<disk, disk0, readable, dry_run, lines, i, new_lines, calls,
                   write_outcome, lvars, mvars, rvars, cvars,
                   pvars>>

\* LoopBody with replacements_made = count for replacements_made += count.
LoopBody_assign(r) ==
    /\ new_lines' = Append(new_lines, r.line)
    /\ result' = [result EXCEPT
           !.replacements_made = r.count,
           !.skipped_instances = IF r.skipped # None THEN Append(@, r.skipped) ELSE @]
    /\ calls' = Append(calls, r)

\* The body of the loop, r being what migrate_line returned.
LoopBody(r) ==
    /\ new_lines' = Append(new_lines, r.line)
    /\ result' = [result EXCEPT
           !.replacements_made = @ + r.count,
           !.skipped_instances = IF r.skipped # None THEN Append(@, r.skipped) ELSE @]
    /\ calls' = Append(calls, r)

\* One iteration of: for i, line in enumerate(lines, 1)
LoopStep ==
    /\ pc = "loop"
    /\ i <= Len(lines)
    /\ LoopBody(migrate_line(lines[i], i))
    /\ i' = i + 1
    /\ UNCHANGED <<disk, disk0, readable, dry_run, pc, lines, write_outcome,
                   lvars, mvars, rvars, cvars,
                   pvars>>

\* The write is not executed; return result.
NoWrite ==
    /\ pc = "loop"
    /\ i > Len(lines)
    /\ ~ShouldWrite(dry_run, result.replacements_made)
    /\ pc' = "done"
    /\ UNCHANGED <<disk, disk0, readable, dry_run, lines, i, new_lines, result, calls,
                   write_outcome, lvars, mvars, rvars, cvars,
                   pvars>>

\* with open(file_path, 'w') as f: f.writelines(new_lines) succeeds.
WriteOk ==
    /\ pc = "loop"
    /\ i > Len(lines)
    /\ ShouldWrite(dry_run, result.replacements_made)
    /\ disk' = Written(new_lines)
    /\ write_outcome' = "ok"
    /\ pc' = "done"
    /\ UNCHANGED <<disk0, readable, dry_run, lines, i, new_lines, result, calls,
                   lvars, mvars, rvars, cvars,
                   pvars>>

\* open(file_path, 'w') raises: the file is as it was.
WriteFailOpen ==
    /\ pc = "loop"
    /\ i > Len(lines)
    /\ ShouldWrite(dry_run, result.replacements_made)
    /\ result' = [result EXCEPT !.errors = Append(@, WriteError)]
    /\ write_outcome' = "open_failed"
    /\ pc' = "done"
    /\ UNCHANGED <<disk, disk0, readable, dry_run, lines, i, new_lines, calls,
                   lvars, mvars, rvars, cvars,
                   pvars>>

\* open(file_path, 'w') has truncated the file and the write raises after
\* k of the lines have reached the file.
WriteFailLate ==
    /\ pc = "loop"
    /\ i > Len(lines)
    /\ ShouldWrite(dry_run, result.replacements_made)
    /\ \E k \in 0..(Len(new_lines) - 1) :
           disk' = Written(SubSeq(new_lines, 1, k))
    /\ result' = [result EXCEPT !.errors = Append(@, WriteError)]
    /\ write_outcome' = "write_failed"
    /\ pc' = "done"
    /\ UNCHANGED <<disk0, readable, dry_run, lines, i, new_lines, calls,
                   lvars, mvars, rvars, cvars,
                   pvars>>

Next ==
    \/ ReadOk
    \/ ReadFail
    \/ LoopStep
    \/ NoWrite
    \/ WriteOk
    \/ WriteFailOpen
    \/ WriteFailLate

Spec == Init /\ [][Next]_vars

\* migrate_file is called again on the file it has just rewritten, with
\* the same arguments.
RunAgain ==
    /\ pc = "done"
    /\ write_outcome = "ok"
    /\ prev = <<>>
    /\ m_pc = "idle"
    /\ prev' = <<result>>
    /\ disk0' = disk
    /\ pc' = "read"
    /\ lines' = <<>>
    /\ i' = 0
    /\ new_lines' = <<>>
    /\ result' = [replacements_made |-> 0, skipped_instances |-> <<>>, errors |-> <<>>]
    /\ calls' = <<>>
    /\ write_outcome' = "none"
    /\ UNCHANGED <<disk, readable, dry_run, lvars, mvars, cvars, pvars>>

RerunNext == Next \/ RunAgain

SpecRerun == Init /\ [][RerunNext]_vars

----------------------------------------------------------------------------
(* main: the run over the files, without --list-files.                     *)

\* The most files of a run.
MaxFiles == 2

\* What the Swift files of the project hold.
BatchContents == {
    FileOf(<<<<AppColors, ".", "primary">>>>, "\n", TRUE),
    FileOf(<<<<AppColors, ".", "Budget", ".", "warning">>,
             <<AppColors, ".", "primary", " ">> \o Call("textTertiary", <<"0", ".", "3">>)>>,
           "\n", TRUE),
    FileOf(<<<<"Light">>>>, "\n", TRUE)
}

\* How a file can be read: "ok": by file_path.read_text(encoding='utf-8')
\* and by open(file_path, 'r'); "no_open": by read_text only (the
\* encoding of open is the one of the locale); "none": by neither.
Access == {"ok", "no_open", "none"}

TreesOf(n) == [1..n -> [content : BatchContents, access : Access]]

Trees == UNION {TreesOf(n) : n \in 1..MaxFiles}

RECURSIVE CountMarkers(_)
\* len(re.findall(r"AppColors\.", content))
CountMarkers(content) ==
    IF content = <<>> THEN 0
    ELSE ReFindallLen(<<AppColors, ".">>, FALSE, Head(content))
         + CountMarkers(Tail(content))

\* count_appcolors_instances: 0 when the file cannot be read.
count_appcolors_instances(file) ==
    IF file.access = "none" THEN 0 ELSE CountMarkers(file.content)

RECURSIVE FoundFrom(_, _)
\* The loop of find_swift_files_with_appcolors from file n on: a file
\* that cannot be read is passed over.
FoundFrom(t, n) ==
    IF n > Len(t) THEN <<>>
    ELSE (IF t[n].access # "none"
             /\ \E l \in 1..Len(t[n].content) : Contains(t[n].content[l], <<AppColors, ".">>)
          THEN <<n>> ELSE <<>>)
         \o FoundFrom(t, n + 1)

find_swift_files_with_appcolors(t) == FoundFrom(t, 1)

\* main is called: the arguments are parsed.
MainInit ==
    /\ tree \in Trees
    /\ mode \in {"file", "all"}
    /\ dry_run \in BOOLEAN
    /\ m_pc = "select"
    /\ files = <<>>
    /\ file_no = 0
    /\ total_replacements = 0
    /\ total_skipped = <<>>
    /\ files_modified = 0
    /\ printed = <<>>
    /\ results = <<>>
    /\ report = NoReport
    /\ disk = <<>>
    /\ disk0 = <<>>
    /\ readable = TRUE
    /\ pc = "idle"
    /\ lines = <<>>
    /\ i = 0
    /\ new_lines = <<>>
    /\ result = [replacements_made |-> 0, skipped_instances |-> <<>>, errors |-> <<>>]
    /\ calls = <<>>
    /\ write_outcome = "none"
    /\ LineIdle
    /\ prev = <<>>
    /\ ConfigIdle
    /\ PrintsIdle

\* if args.file: files = [file_path], a file that exists
SelectFile ==
    /\ m_pc = "select"
    /\ mode = "file"
    /\ \E n \in 1..Len(tree) : files' = <<n>>
    /\ file_no' = 1
    /\ m_pc' = "loop"
    /\ UNCHANGED <<tree, mode, total_replacements, total_skipped, files_modified,
                   printed, results, report, fvars, lvars, rvars, cvars,
                   pvars>>

\* else: files = find_swift_files_with_appcolors(VIEWS_DIR)
FindFiles ==
    /\ m_pc = "select"
    /\ mode = "all"
    /\ files' = find_swift_files_with_appcolors(tree)
    /\ file_no' = 1
    /\ m_pc' = "loop"
    /\ UNCHANGED <<tree, mode, total_replacements, total_skipped, files_modified,
                   printed, results, report, fvars, lvars, rvars, cvars,
                   pvars>>

\* if before_count == 0: continue
SkipFile ==
    /\ m_pc = "loop"
    /\ file_no <= Len(files)
    /\ count_appcolors_instances(tree[files[file_no]]) = 0
    /\ file_no' = file_no + 1
    /\ UNCHANGED <<tree, mode, m_pc, files, total_replacements, total_skipped,
                   files_modified, printed, results, report, fvars, lvars, rvars, cvars,
                   pvars>>

\* result = migrate_file(file_path, dry_run=args.dry_run): the call
CallMigrateFile ==
    /\ m_pc = "loop"
    /\ file_no <= Len(files)
    /\ count_appcolors_instances(tree[files[file_no]]) # 0
    /\ disk' = tree[files[file_no]].content
    /\ disk0' = tree[files[file_no]].content
    /\ readable' = (tree[files[file_no]].access = "ok")
    /\ pc' = "read"
    /\ lines' = <<>>
    /\ i' = 0
    /\ new_lines' = <<>>
    /\ result' = [replacements_made |-> 0, skipped_instances |-> <<>>, errors |-> <<>>]
    /\ calls' = <<>>
    /\ write_outcome' = "none"
    /\ m_pc' = "call"
    /\ UNCHANGED <<dry_run, tree, mode, files, file_no, total_replacements, total_skipped,
                   files_modified, printed, results, report, lvars, rvars, cvars,
                   pvars>>

RECURSIVE Tagged(_, _)
\* Each entry of a list of one file, with that file put in front.
Tagged(file, entries) ==
    IF entries = <<>> THEN <<>>
    ELSE <<<<file>> \o Head(entries)>> \o Tagged(file, Tail(entries))

\* The rest of the loop body, migrate_file having returned: the totals,
\* the skipped instances and the errors of the file.
AfterMigrateFile ==
    /\ m_pc = "call"
    /\ pc = "done"
    /\ files_modified' = IF result.replacements_made > 0
                         THEN files_modified + 1 ELSE files_modified
    /\ total_replacements' = IF result.replacements_made > 0
                             THEN total_replacements + result.replacements_made
                             ELSE total_replacements
    /\ total_skipped' = total_skipped \o Tagged(files[file_no], result.skipped_instances)
    /\ printed' = printed \o [n \in 1..Len(result.errors) |->
                                 <<files[file_no], result.errors[n]>>]
    /\ results' = Append(results, [file |-> files[file_no], result |-> result])
    /\ tree' = [tree EXCEPT ![files[file_no]].content = disk]
    /\ file_no' = file_no + 1
    /\ pc' = "idle"
    /\ m_pc' = "loop"
    /\ UNCHANGED <<disk, disk0, readable, dry_run, lines, i, new_lines, result, calls,
                   write_outcome, mode, files, report, lvars, rvars, cvars,
                   pvars>>

\* The summary after the loop.
Summary ==
    /\ m_pc = "loop"
    /\ file_no > Len(files)
    /\ report' = [files_processed |-> Len(files),
                  files_modified |-> files_modified,
                  total_replacements |-> total_replacements,
                  skipped_instances |-> Len(total_skipped)]
    /\ m_pc' = "done"
    /\ UNCHANGED <<tree, mode, files, file_no, total_replacements, total_skipped,
                   files_modified, printed, results, fvars, lvars, rvars, cvars,
                   pvars>>

MainNext ==
    \/ SelectFile
    \/ FindFiles
    \/ SkipFile
    \/ CallMigrateFile
    \/ Next
    \/ AfterMigrateFile
    \/ Summary

SpecMain == MainInit /\ [][MainNext]_vars

----------------------------------------------------------------------------
(* Scripts/update_claude_config.py.  A string is a sequence of tokens:     *)
(* "${", "Bearer " and "}" are tokens, so that startswith and in are tests *)
(* on tokens.  A field that is missing at any level of the nesting is a    *)
(* field that is not present.                                              *)

\* The most projects of a configuration.
MaxProjects == 2

\* "${NAME}"
Ref(name) == <<"${", name, "}">>

\* A hardcoded key.
Secret == <<"sk-123">>

ApiKeyFlag == <<"--api-key">>

\* The values of an API key in an env block.
KeyFields(name) ==
    {Field(FALSE, <<>>), Field(TRUE, Secret), Field(TRUE, <<>>), Field(TRUE, Ref(name))}

\* The args of swiftzilla.
ArgsFields ==
    {Field(FALSE, <<>>),
     Field(TRUE, <<<<"-y">>, ApiKeyFlag, Secret>>),
     Field(TRUE, <<<<"-y">>, ApiKeyFlag, Ref("SWIFTZILLA_API_KEY")>>),
     Field(TRUE, <<ApiKeyFlag, Secret, ApiKeyFlag>>)}

\* The Authorization header of predev.
AuthFields ==
    {Field(FALSE, <<>>),
     Field(TRUE, <<"Bearer ">> \o Secret),
     Field(TRUE, <<"Bearer ">> \o Ref("PREDEV_API_KEY")),
     Field(TRUE, <<"Basic ">> \o Secret)}

Configs ==
    [adr : KeyFields("OPENROUTER_API_KEY"),
     greb : KeyFields("GREB_API_KEY"),
     args : ArgsFields,
     auth : AuthFields,
     projects : UNION {[1..n -> KeyFields("OPENROUTER_API_KEY")] : n \in 0..MaxProjects}]

\* s.startswith(token)
StartsWith(s, token) == s # <<>> /\ s[1] = token

ConfigInit ==
    /\ config_exists \in BOOLEAN
    /\ config_file \in (IF config_exists THEN Configs ELSE {NoConfig})
    /\ config = NoConfig
    /\ changes_made = <<>>
    /\ c_pc = "start"
    /\ FileIdle
    /\ LineIdle
    /\ MainIdle
    /\ prev = <<>>
    /\ PrintsIdle

\* if not config_path.exists(): sys.exit(1)
ConfigMissing ==
    /\ c_pc = "start"
    /\ ~config_exists
    /\ c_pc' = "exit"
    /\ UNCHANGED <<config_exists, config_file, config, changes_made,
                   fvars, lvars, mvars, rvars,
                   pvars>>

\* config = json.load(f); changes_made = []
LoadConfig ==
    /\ c_pc = "start"
    /\ config_exists
    /\ config' = config_file
    /\ changes_made' = <<>>
    /\ c_pc' = "adr"
    /\ UNCHANGED <<config_exists, config_file, fvars, lvars, mvars, rvars, pvars>>

\* if not old_value.startswith("${"): the field is set to "${name}"
Scrubbed(field, name) ==
    IF field.present /\ ~StartsWith(field.value, "${")
    THEN Field(TRUE, Ref(name)) ELSE field

\* ... changes_made.append(change)
Changes(field, change, changes) ==
    IF field.present /\ ~StartsWith(field.value, "${")
    THEN Append(changes, change) ELSE changes

\* ADR Analysis Server
UpdateAdr ==
    /\ c_pc = "adr"
    /\ config' = [config EXCEPT !.adr = Scrubbed(@, "OPENROUTER_API_KEY")]
    /\ changes_made' = Changes(config.adr, "adr-analysis: OPENROUTER_API_KEY", changes_made)
    /\ c_pc' = "greb"
    /\ UNCHANGED <<config_exists, config_file, fvars, lvars, mvars, rvars, pvars>>

\* Greb MCP
UpdateGreb ==
    /\ c_pc = "greb"
    /\ config' = [config EXCEPT !.greb = Scrubbed(@, "GREB_API_KEY")]
    /\ changes_made' = Changes(config.greb, "greb-mcp: GREB_API_KEY", changes_made)
    /\ c_pc' = "swiftzilla"
    /\ UNCHANGED <<config_exists, config_file, fvars, lvars, mvars, rvars, pvars>>

RECURSIVE ArgsFrom(_, _, _)
\* for i, arg in enumerate(args), from the arg at n on; the loop reads the
\* list it writes.
ArgsFrom(args, n, changes) ==
    IF n > Len(args) THEN [args |-> args, changes |-> changes]
    ELSE IF args[n] = ApiKeyFlag /\ n < Len(args) /\ ~StartsWith(args[n + 1], "${")
         THEN ArgsFrom([args EXCEPT ![n + 1] = Ref("SWIFTZILLA_API_KEY")], n + 1,
                       Append(changes, "swiftzilla: SWIFTZILLA_API_KEY (in args)"))
         ELSE ArgsFrom(args, n + 1, changes)

\* Swiftzilla
UpdateSwiftzilla ==
    /\ c_pc = "swiftzilla"
    /\ IF config.args.present
       THEN /\ config' = [config EXCEPT
                   !.args.value = ArgsFrom(config.args.value, 1, changes_made).args]
            /\ changes_made' = ArgsFrom(config.args.value, 1, changes_made).changes
       ELSE UNCHANGED <<config, changes_made>>
    /\ c_pc' = "predev"
    /\ UNCHANGED <<config_exists, config_file, fvars, lvars, mvars, rvars, pvars>>

\* if auth_header.startswith("Bearer ") and not "${" in auth_header
ShouldScrubAuth(field) ==
    field.present /\ StartsWith(field.value, "Bearer ") /\ ~HasToken(field.value, "${")

\* Predev
UpdatePredev ==
    /\ c_pc = "predev"
    /\ IF ShouldScrubAuth(config.auth)
       THEN /\ config' = [config EXCEPT
                   !.auth.value = <<"Bearer ">> \o Ref("PREDEV_API_KEY")]
            /\ changes_made' =
                   Append(changes_made, "predev: PREDEV_API_KEY (in Authorization header)")
       ELSE UNCHANGED <<config, changes_made>>
    /\ c_pc' = "projects"
    /\ UNCHANGED <<config_exists, config_file, fvars, lvars, mvars, rvars, pvars>>

RECURSIVE ProjectChanges(_, _, _)
\* The changes the loop over the projects appends, from project n on.
ProjectChanges(projects, n, changes) ==
    IF n > Len(projects) THEN changes
    ELSE ProjectChanges(projects, n + 1,
                        Changes(projects[n], "Project: adr-analysis OPENROUTER_API_KEY",
                                changes))

\* for project_path, project_config in config["projects"].items()
UpdateProjects ==
    /\ c_pc = "projects"
    /\ config' = [config EXCEPT !.projects =
           [n \in 1..Len(@) |-> Scrubbed(@[n], "OPENROUTER_API_KEY")]]
    /\ changes_made' = ProjectChanges(config.projects, 1, changes_made)
    /\ c_pc' = "changes"
    /\ UNCHANGED <<config_exists, config_file, fvars, lvars, mvars, rvars, pvars>>

\* if not changes_made: return
NoChanges ==
    /\ c_pc = "changes"
    /\ changes_made = <<>>
    /\ c_pc' = "done"
    /\ UNCHANGED <<config_exists, config_file, config, changes_made,
                   fvars, lvars, mvars, rvars,
                   pvars>>

\* json.dump(config, f, indent=2) succeeds; the function returns.
DumpOk ==
    /\ c_pc = "changes"
    /\ changes_made # <<>>
    /\ config_file' = config
    /\ c_pc' = "done"
    /\ UNCHANGED <<config_exists, config, changes_made, fvars, lvars, mvars, rvars,
                   pvars>>

\* open(config_path, 'w') or json.dump raises: the exception leaves the
\* function, the file holding what it held or nothing that parses.
DumpFail ==
    /\ c_pc = "changes"
    /\ changes_made # <<>>
    /\ config_file' \in {config_file, NoConfig}
    /\ c_pc' = "raised"
    /\ UNCHANGED <<config_exists, config, changes_made, fvars, lvars, mvars, rvars,
                   pvars>>

ConfigNext ==
    \/ ConfigMissing
    \/ LoadConfig
    \/ UpdateAdr
    \/ UpdateGreb
    \/ UpdateSwiftzilla
    \/ UpdatePredev
    \/ UpdateProjects
    \/ NoChanges
    \/ DumpOk
    \/ DumpFail

SpecConfig == ConfigInit /\ [][ConfigNext]_vars

----------------------------------------------------------------------------
(* Scripts/migrate_all_prints.py: migrate_file.  The content of a file is  *)
(* a sequence of tokens, "\n" between the lines.  "print(", the quote,     *)
(* each emoji, "]", "{" and each placeholder text are tokens.              *)

\* The longest file, in bodies.
MaxPrintBodies == 2

\* The four emoji branches: the emoji a print starts with and the call
\* that replaces it.
EMOJI_RULES == <<
    [emoji |-> "<blue circle>", call |-> "logger.debug("],
    [emoji |-> "<check mark>", call |-> "logger.info("],
    [emoji |-> "<cross mark>", call |-> "logger.error("],
    [emoji |-> "<warning sign>", call |-> "logger.warning("]>>

\* What a file is made of: each body is one line, or two.
PrintBodies == {
    <<"print(", "\"", "Add Task", "\"", ")">>,
    <<"print(", "\"", "<blue circle>", " ", "[", "Repo", "]", " ", "Loaded", "\"", ")">>,
    <<"print(", "\"", "<check mark>", " ", "Done", "\"", ")">>,
    <<"print(", "\"", "<cross mark>", "[", "Repo", "]", " ", "Saved:", "\"", ")">>,
    <<"@MainActor", "\n", "final ", "class ", "Foo", " ", "{">>,
    <<"struct ", "Home", "View", " ", "{">>
}

RECURSIVE PrintFilesOf(_)
\* The files of exactly n bodies, "\n" between them.
PrintFilesOf(n) ==
    IF n = 1 THEN PrintBodies
    ELSE {b \o <<"\n">> \o f : b \in PrintBodies, f \in PrintFilesOf(n - 1)}

PrintFiles == UNION {PrintFilesOf(n) : n \in 1..MaxPrintBodies}

\* get_logger_for_file
get_logger_for_file(filepath) ==
    IF HasToken(filepath, "Repository") THEN "AppLogger.repository"
    ELSE IF HasToken(filepath, "Store") THEN "AppLogger.general"
    ELSE IF HasToken(filepath, "Auth") \/ HasToken(filepath, "Tenant") THEN "AppLogger.auth"
    ELSE IF HasToken(filepath, "Dashboard") \/ HasToken(filepath, "View") THEN "AppLogger.ui"
    ELSE IF HasToken(filepath, "Document") THEN "AppLogger.storage"
    ELSE "AppLogger.general"

\* should_remove_print, for the placeholders that the files hold
should_remove_print(line) ==
    \E n \in 1..Len(line) : line[n] \in {"Add Task", "Saved:"}

RECURSIVE CommentOut(_)
\* line.replace('print(', '// TODO: Implement action - print(')
CommentOut(line) ==
    IF line = <<>> THEN <<>>
    ELSE (IF Head(line) = "print(" THEN <<"// TODO: Implement action - ", "print(">> ELSE <<Head(line)>>)
         \o CommentOut(Tail(line))

\* r'print\("<emoji>[^"]*\]\s*([^"]+)"\)' at p, the first quote after
\* the emoji being at q: the "]" that [^"]* ends before, 0 if the
\* pattern does not match at p.
EmojiBracket(s, p, q) ==
    IF q <= Len(s) - 1 /\ s[q + 1] = ")"
       /\ \E j \in (p + 3)..(q - 2) : s[j] = "]"
    THEN SetMax({j \in (p + 3)..(q - 2) : s[j] = "]"})
    ELSE 0

RECURSIVE EmojiSubFrom(_, _, _)

\* One match replaced by <call>"\1") where j is the "]" and q the quote.
\* The group ([^"]+) ends before q; \s* takes the whitespace after j and
\* leaves one character to the group.
EmojiReplace(s, p, rule, j, q) ==
    IF j = 0 THEN <<s[p]>> \o EmojiSubFrom(s, p + 1, rule)
    ELSE <<rule.call, "\"">>
         \o SubSeq(s, SetMin({g \in (j + 1)..(q - 1) :
                                 g = q - 1 \/ \E n \in (j + 1)..g : ~IsSpace(s[n])}),
                   q - 1)
         \o <<"\"", ")">>
         \o EmojiSubFrom(s, q + 2, rule)

EmojiMatch(s, p, rule, q) == EmojiReplace(s, p, rule, EmojiBracket(s, p, q), q)

\* re.sub of the pattern of an emoji branch, from p on: where
\* print\("<emoji> is at p, the match goes on from the first quote
\* after the emoji (Len(s) + 1 if there is none).
EmojiSubFrom(s, p, rule) ==
    IF p > Len(s) THEN <<>>
    ELSE IF p + 2 <= Len(s) /\ s[p] = "print(" /\ s[p + 1] = "\"" /\ s[p + 2] = rule.emoji
    THEN EmojiMatch(s, p, rule,
                    SetMin({n \in (p + 3)..Len(s) : s[n] = "\""} \cup {Len(s) + 1}))
    ELSE <<s[p]>> \o EmojiSubFrom(s, p + 1, rule)

RECURSIVE EmojiBranches(_, _)

\* The emoji branches of the loop body from branch r on: the first
\* branch whose test holds and whose re.sub changes the line (if new_line
\* != line: ... continue) ends the body.
EmojiBranches(line, r) ==
    IF r > Len(EMOJI_RULES) THEN [line |-> line, changed |-> FALSE]
    ELSE IF /\ Contains(line, <<"print(", "\"", EMOJI_RULES[r].emoji>>)
            /\ EmojiSubFrom(line, 1, EMOJI_RULES[r]) # line
    THEN [line |-> EmojiSubFrom(line, 1, EMOJI_RULES[r]), changed |-> TRUE]
    ELSE EmojiBranches(line, r + 1)

\* The body of the loop for one line: the line appended to new_lines and
\* whether changes_made is set.
MigratePrintLine(line) ==
    IF HasToken(line, "print(") /\ should_remove_print(line)
    THEN [line |-> CommentOut(line), changed |-> TRUE]
    ELSE EmojiBranches(line, 1)

RECURSIVE MigratePrintsFrom(_, _, _)

PrintLineDone(s, e, done) ==
    IF e > Len(s) THEN [content |-> done.line, changed |-> done.changed]
    ELSE [content |-> done.line \o <<"\n">> \o MigratePrintsFrom(s, e + 1, e + 1).content,
          changed |-> done.changed \/ MigratePrintsFrom(s, e + 1, e + 1).changed]

\* content.split('\n'), the loop and '\n'.join(new_lines), for the line
\* that starts at p and ends before e, and the lines after it.
MigratePrintsFrom(s, p, e) ==
    IF e <= Len(s) /\ s[e] # "\n" THEN MigratePrintsFrom(s, p, e + 1)
    ELSE PrintLineDone(s, e, MigratePrintLine(SubSeq(s, p, e - 1)))

\* 'private let logger' in content or 'let logger' in content
has_logger(content) ==
    HasToken(content, "    private let logger = ") \/ HasToken(content, "let logger")

\* re.sub(r'(<keyword>\s+\w+[^{]*\{)', r'\1\n    private let logger = '
\* + logger_name, content, count=1): the pattern matches where the
\* keyword is followed by a word (\w+ is a run of identifier characters)
\* and a brace comes later; the declaration goes after the first brace
\* that follows the first match.
AddAfterFirst(s, keyword, logger_name) ==
    LET starts == {p \in 1..(Len(s) - 1) :
                      /\ s[p] = keyword
                      /\ s[p + 1] \in {"Foo", "Home", "View", "Loaded", "Done", "Repo"}
                      /\ \E b \in (p + 2)..Len(s) : s[b] = "{"}
    IN  IF starts = {} THEN s
        ELSE LET b == SetMin({n \in (SetMin(starts) + 2)..Len(s) : s[n] = "{"})
             IN  SubSeq(s, 1, b) \o <<"\n", "    private let logger = ", logger_name>>
                 \o SubSeq(s, b + 1, Len(s))

\* if not has_logger and changes_made: ...
AddLogger(content, logger_name) ==
    IF HasToken(content, "@MainActor")
    THEN AddAfterFirst(content, "class ", logger_name)
    ELSE IF HasToken(content, "struct ") /\ HasToken(content, "View")
    THEN AddAfterFirst(content, "struct ", logger_name)
    ELSE content

PrintsInit ==
    /\ pr_pc = "read"
    /\ pr_path \in {<<"Guest", "Repository">>, <<"Home", "View">>, <<"Helpers">>}
    /\ pr_file \in PrintFiles
    /\ pr_readable \in BOOLEAN
    /\ pr_content = <<>>
    /\ pr_changed = FALSE
    /\ pr_ret = <<>>
    /\ pr_first = <<>>
    /\ FileIdle
    /\ LineIdle
    /\ MainIdle
    /\ prev = <<>>
    /\ ConfigIdle

\* open(filepath, 'r') raises: except Exception: return False
PrintsReadFail ==
    /\ pr_pc = "read"
    /\ ~pr_readable
    /\ pr_ret' = Append(pr_ret, FALSE)
    /\ pr_pc' = "done"
    /\ UNCHANGED <<pr_path, pr_file, pr_readable, pr_content, pr_changed, pr_first,
                   fvars, lvars, mvars, rvars, cvars>>

\* content = f.read() and the loop over the lines
PrintsLoop ==
    /\ pr_pc = "read"
    /\ pr_readable
    /\ pr_content' = MigratePrintsFrom(pr_file, 1, 1).content
    /\ pr_changed' = MigratePrintsFrom(pr_file, 1, 1).changed
    /\ pr_pc' = "loop_done"
    /\ UNCHANGED <<pr_path, pr_file, pr_readable, pr_ret, pr_first,
                   fvars, lvars, mvars, rvars, cvars>>

\* return False
PrintsNoChanges ==
    /\ pr_pc = "loop_done"
    /\ ~pr_changed
    /\ pr_ret' = Append(pr_ret, FALSE)
    /\ pr_pc' = "done"
    /\ UNCHANGED <<pr_path, pr_file, pr_readable, pr_content, pr_changed, pr_first,
                   fvars, lvars, mvars, rvars, cvars>>

\* The content that is written: the logger is added if the file that was
\* read had none.
PrintsWritten ==
    IF has_logger(pr_file) THEN pr_content
    ELSE AddLogger(pr_content, get_logger_for_file(pr_path))

\* if changes_made: ... f.write(content); return True
PrintsWriteOk ==
    /\ pr_pc = "loop_done"
    /\ pr_changed
    /\ pr_content' = PrintsWritten
    /\ pr_file' = PrintsWritten
    /\ pr_ret' = Append(pr_ret, TRUE)
    /\ pr_pc' = "done"
    /\ UNCHANGED <<pr_path, pr_readable, pr_changed, pr_first,
                   fvars, lvars, mvars, rvars, cvars>>

\* open(filepath, 'w') or f.write raises: except Exception: return False.
\* The file holds what it held, or a part of the new content.
PrintsWriteFail ==
    /\ pr_pc = "loop_done"
    /\ pr_changed
    /\ pr_content' = PrintsWritten
    /\ \E n \in 0..(Len(PrintsWritten) - 1) :
           pr_file' \in {pr_file, SubSeq(PrintsWritten, 1, n)}
    /\ pr_ret' = Append(pr_ret, FALSE)
    /\ pr_pc' = "done"
    /\ UNCHANGED <<pr_path, pr_readable, pr_changed, pr_first,
                   fvars, lvars, mvars, rvars, cvars>>

\* migrate_file is called a second time on the same file.
PrintsRunAgain ==
    /\ pr_pc = "done"
    /\ Len(pr_ret) = 1
    /\ pr_first' = pr_file
    /\ pr_content' = <<>>
    /\ pr_changed' = FALSE
    /\ pr_pc' = "read"
    /\ UNCHANGED <<pr_path, pr_file, pr_readable, pr_ret,
                   fvars, lvars, mvars, rvars, cvars>>

PrintsNext ==
    \/ PrintsReadFail
    \/ PrintsLoop
    \/ PrintsNoChanges
    \/ PrintsWriteOk
    \/ PrintsWriteFail
    \/ PrintsRunAgain

SpecPrints == PrintsInit /\ [][PrintsNext]_vars

----------------------------------------------------------------------------
(* Properties of migrate_line, checked under SpecLine.                     *)

Returned == l_pc \in {"ret", "ret2"}

SkipFlagged(line) == \E n \in 1..Len(SKIP_PATTERNS) : Contains(line, SKIP_PATTERNS[n])

IsUnhandled(skipped) == skipped # None /\ skipped[3][1] = "Unhandled pattern"

\* C1: a line that contains a skip pattern is returned as it is, with
\* count 0 and a skip info, whatever else it contains.
SkipInviolable ==
    Returned /\ SkipFlagged(l_in) =>
        /\ l_ret.line = l_in
        /\ l_ret.count = 0
        /\ l_ret.skipped # None

\* C1 witness: a skipped line that both passes would have rewritten.
SkipInviolableWitness ==
    /\ Returned
    /\ SkipFlagged(l_in)
    /\ l_ret.skipped # None
    /\ apply_direct_mappings(l_in).count > 0
    /\ apply_opacity_mapping(l_in).count > 0

\* C2: migrate_line of the line migrate_line returned returns that line
\* with count 0.
Idempotent ==
    l_pc = "ret2" => l_ret2.line = l_ret.line /\ l_ret2.count = 0

\* C2 witness: a second pass over a line the first pass rewrote in both
\* passes and left a legacy reference in.
IdempotentWitness ==
    /\ l_pc = "ret2"
    /\ apply_direct_mappings(l_in).subs > 0
    /\ apply_opacity_mapping(l_in).subs > 0
    /\ HasToken(l_ret.line, AppColors)

\* The first position of the legacy marker in a line that has it.
FirstMarker(line) == SetMin({p \in 1..Len(line) : line[p] = AppColors})

\* C4: for a line that is not skip-flagged, a legacy marker left in the
\* returned line is reported as "Unhandled pattern", with the text at
\* the first remaining marker.
ResidualReported ==
    Returned /\ ~SkipFlagged(l_in) /\ HasToken(l_ret.line, AppColors) =>
        /\ IsUnhandled(l_ret.skipped)
        /\ SubSeq(l_ret.line, FirstMarker(l_ret.line),
                  FirstMarker(l_ret.line) + Len(l_ret.skipped[3][2]) - 1)
             = l_ret.skipped[3][2]

\* C8: the count migrate_line returns is the number of occurrences the two
\* passes replaced.
LineCountAccurate == Returned => l_ret.count = l_ret.subs

\* C5: the pattern of an "Unhandled pattern" skip info is in the returned
\* line, and the count is the number of occurrences replaced.
UnresolvedKept ==
    Returned /\ IsUnhandled(l_ret.skipped) =>
        /\ Contains(l_ret.line, l_ret.skipped[3][2])
        /\ l_ret.count = l_ret.subs

\* The literals OPACITY_MAPPINGS has an entry for.
OpacityKeys == {OPACITY_MAPPINGS[m].val : m \in 1..Len(OPACITY_MAPPINGS)}

\* C6: a call AppColors.<legacy>.opacity(v), for an entry (legacy, new)
\* of COLORS_WITH_OPACITY and a key v of OPACITY_MAPPINGS, is rewritten to
\* <new>.opacity(OPACITY_MAPPINGS[v]) and counted.
EveryEligibleSymbolMapped ==
    Returned /\ ~SkipFlagged(l_in) =>
        \A c \in 1..Len(COLORS_WITH_OPACITY), m \in 1..Len(OPACITY_MAPPINGS) :
            Contains(l_in, Call(COLORS_WITH_OPACITY[c].sym, OPACITY_MAPPINGS[m].val)) =>
                /\ ~Contains(l_ret.line,
                             Call(COLORS_WITH_OPACITY[c].sym, OPACITY_MAPPINGS[m].val))
                /\ Contains(l_ret.line,
                            OpacityReplacement(COLORS_WITH_OPACITY[c].new,
                                               OPACITY_MAPPINGS[m].const))
                /\ l_ret.count > 0

\* A line that is one call AppColors.<symbol>.opacity(v).
IsOpacityCall(line) ==
    /\ Len(line) > 7
    /\ SubSeq(line, 1, 2) = <<AppColors, ".">>
    /\ SubSeq(line, 4, 6) = <<".", "opacity", "(">>
    /\ line[Len(line)] = ")"
    /\ \A n \in 7..(Len(line) - 1) : line[n] # ")"

OpacityArgument(line) == SubSeq(line, 7, Len(line) - 1)

\* C7: a call whose argument is not a key of OPACITY_MAPPINGS is returned
\* as it is, with count 0, and reported as the unhandled pattern.
UnmappedLiteralKept ==
    Returned /\ IsOpacityCall(l_in) /\ OpacityArgument(l_in) \notin OpacityKeys =>
        /\ l_ret.line = l_in
        /\ l_ret.count = 0
        /\ l_ret.skipped = <<l_num, l_in, UnhandledReason(l_in)>>

----------------------------------------------------------------------------
(* Properties of migrate_file, checked under Spec.                         *)

RECURSIVE SumCounts(_)
\* The sum of the counts of these returns of migrate_line.
SumCounts(rets) ==
    IF rets = <<>> THEN 0 ELSE Head(rets).count + SumCounts(Tail(rets))

RECURSIVE SkipInfos(_)
\* The skip infos of these returns of migrate_line that are not None.
SkipInfos(rets) ==
    IF rets = <<>> THEN <<>>
    ELSE (IF Head(rets).skipped # None THEN <<Head(rets).skipped>> ELSE <<>>)
         \o SkipInfos(Tail(rets))

\* What migrate_line returns for each line of the file as it was read,
\* the lines numbered from 1.
Returns(file) == [n \in 1..Len(file) |-> migrate_line(Readlines(file)[n], n)]

\* C3: with dry_run the file is not opened for writing and stays as it
\* was.
DryRunNeverWrites == dry_run => write_outcome = "none" /\ disk = disk0

\* C3 witness: a dry run that has counted replacements has returned.
DryRunNeverWritesWitness ==
    pc = "done" /\ dry_run /\ result.replacements_made > 0

\* C9: for a readable file replacements_made is the sum of the counts
\* migrate_line returns for its lines, and skipped_instances holds the
\* skip infos of these lines in line order, numbered from 1.
FileCountAccurate ==
    pc = "done" /\ readable =>
        /\ calls = Returns(disk0)
        /\ result.replacements_made = SumCounts(calls)
        /\ result.skipped_instances = SkipInfos(calls)

\* C9 witness: a file of two or more lines has been migrated, with
\* replacements on more than one line and a skip info on the last line.
FileCountAccurateWitness ==
    /\ pc = "done"
    /\ Len(calls) > 1
    /\ calls[1].count > 0
    /\ calls[Len(calls)].count > 0
    /\ calls[Len(calls)].skipped # None

\* C10: the write is executed exactly if dry_run is false and
\* replacements_made > 0; after a write that succeeded the file holds
\* the rewritten lines, one per line, in order; with replacements_made = 0
\* the file stays as it was.
WriteGated ==
    pc = "done" =>
        /\ write_outcome # "none" <=> (~dry_run /\ result.replacements_made > 0)
        /\ write_outcome = "ok" =>
              /\ Len(disk) = Len(disk0)
              /\ \A n \in 1..Len(disk) : disk[n] = Returns(disk0)[n].line
        /\ result.replacements_made = 0 => disk = disk0

\* C10 witness: a write of two lines succeeded and changed the file.
WriteGatedWitness ==
    pc = "done" /\ write_outcome = "ok" /\ Len(disk) > 1 /\ disk # disk0

\* The terminator a stored line ends with, "" for a last line without one.
TerminatorOf(line) ==
    IF line # <<>> /\ line[Len(line)] \in Terminators THEN line[Len(line)] ELSE ""

\* C11: each line of a file migrate_file has rewritten ends with the
\* terminator the corresponding line of the file that was read ended with.
TerminatorsPreserved ==
    pc = "done" /\ write_outcome = "ok" =>
        /\ Len(disk) = Len(disk0)
        /\ \A n \in 1..Len(disk) : TerminatorOf(disk[n]) = TerminatorOf(disk0[n])

\* C12: when migrate_file has returned, the file holds either all the
\* rewritten lines or what it held at the call.
AtomicRewrite ==
    pc = "done" =>
        \/ disk = disk0
        \/ disk = Written(new_lines) /\ Len(new_lines) = Len(disk0)

\* C13: migrate_file returns on every path; after a read that failed the
\* result has replacements_made 0, no skip info and one error, and the
\* file is as it was; after a write that failed the result has the error
\* of the write; with no failure errors is empty.
ErrorsReturned ==
    /\ pc \in {"read", "loop", "done"}
    /\ pc = "done" /\ ~readable =>
          /\ result.replacements_made = 0
          /\ result.skipped_instances = <<>>
          /\ result.errors = <<ReadError>>
          /\ disk = disk0
    /\ pc = "done" /\ write_outcome \in {"open_failed", "write_failed"} =>
          result.errors = <<WriteError>>
    /\ pc = "done" /\ readable /\ write_outcome \in {"none", "ok"} =>
          result.errors = <<>>

\* C13 witness: a file that has lines to rewrite could not be read, and
\* migrate_file has returned.
ErrorsReturnedWitness ==
    /\ pc = "done"
    /\ ~readable
    /\ result.errors # <<>>
    /\ \E n \in 1..Len(disk0) : migrate_line(Readlines(disk0)[n], n).count > 0

----------------------------------------------------------------------------
(* Properties of main, checked under SpecMain.                             *)

\* The files the run is about: the one --file names, else the Swift
\* files of the project.
Requested ==
    IF mode = "file" THEN {files[n] : n \in 1..Len(files)} ELSE 1..Len(tree)

\* A MigrationResult was produced for file n.
HasResult(n) == \E r \in 1..Len(results) : results[r].file = n

\* C14: at the end of a run, each file of it that cannot be read has an
\* error printed for it, and each file that can be read and holds a
\* legacy reference has been migrated.
UnreadableReported ==
    m_pc = "done" =>
        \A n \in Requested :
            /\ tree[n].access # "ok" =>
                  \E e \in 1..Len(printed) : printed[e] = <<n, ReadError>>
            /\ tree[n].access = "ok" /\ CountMarkers(tree[n].content) > 0 =>
                  HasResult(n)

RECURSIVE SumMade(_)
\* The sum of replacements_made over these results.
SumMade(rs) ==
    IF rs = <<>> THEN 0 ELSE Head(rs).result.replacements_made + SumMade(Tail(rs))

RECURSIVE AllSkipped(_)
\* The skip entries of these results, each with its file, in order.
AllSkipped(rs) ==
    IF rs = <<>> THEN <<>>
    ELSE Tagged(Head(rs).file, Head(rs).result.skipped_instances) \o AllSkipped(Tail(rs))

\* The part of C15 about files modified, total replacements and skipped
\* instances.
SumsAggregated ==
    m_pc = "done" =>
        /\ report.files_modified
             = Cardinality({r \in 1..Len(results) : results[r].result.replacements_made > 0})
        /\ report.total_replacements = SumMade(results)
        /\ report.skipped_instances = Len(AllSkipped(results))
        /\ total_skipped = AllSkipped(results)
        /\ \A a, b \in 1..Len(results) : a < b => results[a].file < results[b].file

\* C15: the summary's files processed is the number of MigrationResults
\* produced, files modified the number of them with replacements_made > 0,
\* total replacements the sum of their replacements_made, and skipped
\* instances the number of their skip entries, listed file by file in
\* the order of the files and line by line within a file.
ReportAggregated ==
    /\ m_pc = "done" => report.files_processed = Len(results)
    /\ SumsAggregated

----------------------------------------------------------------------------
(* Properties of the tables, checked under SpecTables.                     *)

\* The reference at p: "AppColors", "." and the identifier after it.
ReferenceAt(line, p) == SubSeq(line, p, WordRunEnd(line, p + 2) - 1)

IsRuleSymbol(reference) ==
    \E r \in 1..Len(DIRECT_MAPPINGS) : DIRECT_MAPPINGS[r].pattern = reference

\* C16: the direct pass leaves in the line every reference whose
\* identifier is not a symbol of DIRECT_MAPPINGS, a symbol of the table
\* being only a prefix of it, and every reference followed by a member
\* access.
ExactSymbol ==
    Returned /\ ~SkipFlagged(l_in) =>
        \A p \in 1..Len(l_in) :
            MemberAt(l_in, p) =>
                /\ ~IsRuleSymbol(ReferenceAt(l_in, p)) =>
                      Contains(apply_direct_mappings(l_in).line, ReferenceAt(l_in, p))
                /\ At(l_in, WordRunEnd(l_in, p + 2)) = "." =>
                      Contains(apply_direct_mappings(l_in).line,
                               ReferenceAt(l_in, p) \o <<".">>)

\* C17: at no position of a line do the patterns of two rules of
\* DIRECT_MAPPINGS both match.
RulesExclusive ==
    Returned =>
        \A p \in 1..Len(l_in) :
            \A r1, r2 \in 1..Len(DIRECT_MAPPINGS) :
                /\ MatchAt(DIRECT_MAPPINGS[r1].pattern, TRUE, l_in, p)
                /\ MatchAt(DIRECT_MAPPINGS[r2].pattern, TRUE, l_in, p)
                => r1 = r2

\* The indices of the skip patterns a line contains.
SkipHits(line) == {n \in 1..Len(SKIP_PATTERNS) : Contains(line, SKIP_PATTERNS[n])}

\* The first position of sub in s, which contains it.
FirstAt(s, sub) ==
    SetMin({p \in 1..(Len(s) - Len(sub) + 1) : SubSeq(s, p, p + Len(sub) - 1) = sub})

\* C18: a line that contains protected substrings gets one skip info:
\* its number, its text without the surrounding whitespace, and the
\* reason of the first entry of SKIP_PATTERNS it contains.
SkipReportedOnce ==
    Returned /\ SkipFlagged(l_in) =>
        l_ret.skipped = <<l_num, Strip(l_in),
                          ContainsReason(SKIP_PATTERNS[SetMin(SkipHits(l_in))])>>

\* C18 witness: a skipped line with whitespace around it and a reference
\* the direct pass rewrites, in which a later entry of SKIP_PATTERNS
\* occurs before the first entry it contains.
SkipReportedOnceWitness ==
    /\ Returned
    /\ Cardinality(SkipHits(l_in)) > 1
    /\ FirstAt(l_in, SKIP_PATTERNS[SetMax(SkipHits(l_in))])
         < FirstAt(l_in, SKIP_PATTERNS[SetMin(SkipHits(l_in))])
    /\ Strip(l_in) # l_in
    /\ apply_direct_mappings(l_in).count > 0
    /\ l_ret.skipped # None

----------------------------------------------------------------------------
(* Properties of update_claude_config, checked under SpecConfig.           *)

\* A string that is "${NAME}" and nothing else.
IsRef(value) == Len(value) = 3 /\ value[1] = "${" /\ value[3] = "}"

\* A key that is there is a reference.
KeyScrubbed(field) == field.present => IsRef(field.value)

\* C19: when update_claude_config has returned, each of the five kinds
\* of credential field that is in the file holds a "${NAME}" reference
\* (the Authorization header: a reference, with or without "Bearer ").
ScrubbingComplete ==
    c_pc = "done" =>
        /\ KeyScrubbed(config_file.adr)
        /\ KeyScrubbed(config_file.greb)
        /\ config_file.args.present =>
              \A n \in 1..(Len(config_file.args.value) - 1) :
                  config_file.args.value[n] = ApiKeyFlag =>
                      IsRef(config_file.args.value[n + 1])
        /\ config_file.auth.present =>
              \/ IsRef(config_file.auth.value)
              \/ /\ StartsWith(config_file.auth.value, "Bearer ")
                 /\ IsRef(Tail(config_file.auth.value))
        /\ \A n \in 1..Len(config_file.projects) : KeyScrubbed(config_file.projects[n])

----------------------------------------------------------------------------
(* Properties of a second run of migrate_file, checked under SpecRerun.    *)

\* C20: the run of migrate_file that follows a run that wrote the file
\* returns replacements_made 0 and the skipped_instances of the first
\* run, and does not open the file for writing.
SecondRunNoOp ==
    prev # <<>> /\ pc = "done" =>
        /\ result.replacements_made = 0
        /\ write_outcome = "none"
        /\ disk = disk0
        /\ result.skipped_instances = prev[1].skipped_instances

\* C20 witness: the second run has returned, on a file of which the
\* first run reported two lines, one of them a line it had rewritten.
SecondRunNoOpWitness ==
    /\ prev # <<>>
    /\ pc = "done"
    /\ prev[1].replacements_made > 0
    /\ Len(prev[1].skipped_instances) > 1
    /\ \E n \in 1..Len(prev[1].skipped_instances) :
           /\ IsUnhandled(prev[1].skipped_instances[n])
           /\ HasToken(prev[1].skipped_instances[n][2], SemanticColors)

----------------------------------------------------------------------------
(* Further properties of migrate_line, checked under SpecLine.             *)

\* C21: migrate_line returns a line other than the one it was given
\* exactly if the count it returns is greater than 0.
ChangedIffCounted ==
    /\ l_pc \in {"ret", "ret2"} => (l_ret.line # l_in <=> l_ret.count > 0)
    /\ l_pc = "ret2" => (l_ret2.line # l_ret.line <=> l_ret2.count > 0)

\* C21 witness: a line only the direct pass rewrote has been returned,
\* changed and counted, with a legacy reference left in it.
ChangedIffCountedWitness ==
    /\ l_pc = "ret"
    /\ l_ret.line # l_in
    /\ l_ret.count > 0
    /\ apply_opacity_mapping(l_in).count = 0
    /\ HasToken(l_ret.line, AppColors)

----------------------------------------------------------------------------
(* Further properties of main, checked under SpecMain.                     *)

\* The result of the last call of migrate_file: new_lines, disk0 and
\* write_outcome are still the ones of that call.
LastResult == results[Len(results)]

\* C22: at the end of a run without --dry-run, the file migrate_file was
\* last called for, if it is counted as modified, holds the rewritten
\* lines.
ModifiedOnDisk ==
    m_pc = "done" /\ ~dry_run /\ results # <<>> =>
        (LastResult.result.replacements_made > 0 =>
            /\ report.files_modified > 0
            /\ Len(new_lines) = Len(disk0)
            /\ tree[LastResult.file].content = Written(new_lines))

----------------------------------------------------------------------------
(* Properties of migrate_file of migrate_all_prints.py, checked under      *)
(* SpecPrints.                                                             *)

\* C23: the call of migrate_file that follows a call that returned True
\* returns False and leaves the file as the first call left it.
PrintsIdempotent ==
    pr_pc = "done" /\ Len(pr_ret) = 2 /\ pr_ret[1] =>
        /\ ~pr_ret[2]
        /\ pr_file = pr_first

====
